---- MODULE Spec2Model ----
(***************************************************************************)
(* Model of experiments.py: do_experiment runs a sweep inside a QCoDeS     *)
(* measurement and names the run by a path string; get_results_from_db_path*)
(* re-derives the experiment from such a path and fetches the run.         *)
(*                                                                         *)
(* A Python str is a sequence of one-character strings.  The experiment    *)
(* store (the QCoDeS database) is two tables: experiments and runs.        *)
(* Each call is one atomic action: the program is single-threaded and      *)
(* synchronous.  The variable "last" records what the last call observed   *)
(* and gave back.  The variable "lookup" is the way the installed QCoDeS   *)
(* release looks an experiment up when the sample name is the empty        *)
(* string; it never changes.                                               *)
(***************************************************************************)
EXTENDS Integers, Sequences, FiniteSets, TLC

VARIABLES experiments, runs, handed, last, lookup

vars == <<experiments, runs, handed, last, lookup>>

(***************************************************************************)
(* Bounds of the model.                                                    *)
(***************************************************************************)
MaxExps == 3
MaxRuns == 2
MaxCallbacks == 2
MaxRows == 2
MaxFormat == 2

(***************************************************************************)
(* Strings.                                                                *)
(***************************************************************************)
Slash == <<"/">>
NoneStr == <<"N", "o", "n", "e">>
Digits == <<"0", "1", "2", "3", "4", "5", "6", "7", "8", "9">>

\* str.split("/"): the segments between the separators; never an empty list.
RECURSIVE SplitFrom(_, _, _)
SplitFrom(s, i, cur) ==
    IF i > Len(s) THEN <<cur>>
    ELSE IF s[i] = "/" THEN <<cur>> \o SplitFrom(s, i + 1, <<>>)
    ELSE SplitFrom(s, i + 1, Append(cur, s[i]))

Split(s) == SplitFrom(s, 1, <<>>)

\* "/".join(parts)
RECURSIVE Join(_)
Join(parts) ==
    IF Len(parts) = 0 THEN <<>>
    ELSE IF Len(parts) = 1 THEN parts[1]
    ELSE parts[1] \o Slash \o Join(Tail(parts))

\* f"{n}" for an int: decimal digits, a leading "-" when negative.
RECURSIVE NatToStr(_)
NatToStr(n) ==
    IF n < 10 THEN <<Digits[n + 1]>>
    ELSE Append(NatToStr(n \div 10), Digits[(n % 10) + 1])

IntToStr(n) == IF n < 0 THEN <<"-">> \o NatToStr(0 - n) ELSE NatToStr(n)

IsDigit(c) == \E d \in 1..10 : Digits[d] = c

DigitVal(c) == (CHOOSE d \in 1..10 : Digits[d] = c) - 1

RECURSIVE DigitsVal(_, _)
DigitsVal(s, acc) ==
    IF Len(s) = 0 THEN acc
    ELSE DigitsVal(Tail(s), acc * 10 + DigitVal(Head(s)))

\* The vertical tab, chr(11): the string holds that one character.
VerticalTab == ""

\* The whitespace int() strips from both ends of its argument: space, tab,
\* line feed, vertical tab, form feed and carriage return.
IsSpace(c) == c \in {" ", "\t", "\n", VerticalTab, "\f", "\r"}

RECURSIVE StripLeft(_)
StripLeft(s) ==
    IF Len(s) > 0 /\ IsSpace(s[1]) THEN StripLeft(Tail(s)) ELSE s

RECURSIVE StripRight(_)
StripRight(s) ==
    IF Len(s) > 0 /\ IsSpace(s[Len(s)])
    THEN StripRight(SubSeq(s, 1, Len(s) - 1))
    ELSE s

Strip(s) == StripRight(StripLeft(s))

\* The digits of an int literal: digits with single underscores between
\* them, never first, last or doubled.
DigitGroups(s) ==
    /\ Len(s) > 0
    /\ IsDigit(s[1])
    /\ IsDigit(s[Len(s)])
    /\ \A i \in 1..Len(s) : IsDigit(s[i]) \/ s[i] = "_"
    /\ \A i \in 1..(Len(s) - 1) : ~(s[i] = "_" /\ s[i + 1] = "_")

GroupsVal(s) == DigitsVal(SelectSeq(s, IsDigit), 0)

\* int(s) in base 10: surrounding whitespace is stripped, then an optional
\* sign and digits, with single underscores allowed between the digits;
\* anything else is a ValueError.  Characters are ASCII: the digits and the
\* whitespace int() knows outside ASCII are not in the alphabet of the paths.
ParseInt(s) ==
    LET t == Strip(s)
    IN  IF DigitGroups(t) THEN [ok |-> TRUE, val |-> GroupsVal(t)]
        ELSE IF Len(t) > 1 /\ t[1] = "-" /\ DigitGroups(Tail(t))
             THEN [ok |-> TRUE, val |-> 0 - GroupsVal(Tail(t))]
        ELSE IF Len(t) > 1 /\ t[1] = "+" /\ DigitGroups(Tail(t))
             THEN [ok |-> TRUE, val |-> GroupsVal(Tail(t))]
        ELSE [ok |-> FALSE, val |-> 0]

\* A Python slice list[a:b] with 0 <= a, given as the 1-based range a+1..b.
Slice(list, from, to) ==
    IF to < from THEN <<>> ELSE SubSeq(list, from, to)

(***************************************************************************)
(* The path scheme of this layer.                                          *)
(***************************************************************************)
\* do_experiment: the (experiment name, sample name) a base_path stands for.
RunPair(base_path) ==
    LET name_parts == Split(base_path)
    IN  IF Len(name_parts) = 1
        THEN <<name_parts[1], NoneStr>>
        ELSE <<name_parts[1], Join(Tail(name_parts))>>

\* do_experiment: f"{base_path}/{counter}"
DataSetPath(base_path, counter) == base_path \o Slash \o IntToStr(counter)

\* get_results_from_db_path: the three parts of a db_path; run_number is the
\* result of int() on the last segment.
PathParts(db_path) ==
    LET path_parts == Split(db_path)
        n == Len(path_parts)
    IN  [experiment_name |-> path_parts[1],
         run_number |-> ParseInt(path_parts[n]),
         sample_name |-> Join(Slice(path_parts, 2, n - 1))]

FetchPair(db_path) ==
    <<PathParts(db_path).experiment_name, PathParts(db_path).sample_name>>

(***************************************************************************)
(* The experiment store, as this layer uses it.  An experiment record is   *)
(* [name, sample_name, run_counter], its exp_id is its position in the     *)
(* experiments table; a run record is [exp_id, rows], its run_id is its    *)
(* position in the runs table.                                             *)
(***************************************************************************)
\* load_experiment_by_name(name, sample) selects the records whose name
\* and sample name are the ones asked for.  QCoDeS is not part of the
\* repository and its releases differ for the empty sample name: one tests
\* "sample is not None" and selects by the pair as for any other sample
\* name ("pair"), one tests "if sample" and then selects by the name alone
\* ("name").
Lookups == {"pair", "name"}

SamePair(exps, name, sample) ==
    {i \in 1..Len(exps) : exps[i].name = name /\ exps[i].sample_name = sample}

SameName(exps, name) == {i \in 1..Len(exps) : exps[i].name = name}

Matching(exps, name, sample) ==
    IF lookup = "name" /\ sample = <<>>
    THEN SameName(exps, name)
    ELSE SamePair(exps, name, sample)

\* An experiment handle: exp_id is the internal id, id the externally visible
\* field; 0 stands for "not set".
NoExperiment == [exp_id |-> 0, id |-> 0]

\* load_experiment_by_name raises ValueError unless exactly one record
\* matches (no match at line 59, several matches at lines 133-138).  The
\* handle it returns has exp_id set and id not set (lines 56-58).
LoadExperimentByName(exps, name, sample) ==
    LET found == Matching(exps, name, sample)
    IN  IF Cardinality(found) = 1
        THEN [raised |-> FALSE,
              exp |-> [exp_id |-> CHOOSE i \in found : TRUE, id |-> 0]]
        ELSE [raised |-> TRUE, exp |-> NoExperiment]

\* new_experiment appends a record whose run counter is 0; on the handle it
\* returns both id fields are set.
NewExperimentTable(exps, name, sample) ==
    Append(exps, [name |-> name, sample_name |-> sample, run_counter |-> 0])

NewExperimentHandle(exps) == [exp_id |-> Len(exps) + 1, id |-> Len(exps) + 1]

\* experiment.last_counter
LastCounter(exps, exp_id) == exps[exp_id].run_counter

\* experiment.data_sets(): the run ids of the experiment, in table order.
RECURSIVE DataSetsFrom(_, _, _)
DataSetsFrom(rs, exp_id, i) ==
    IF i > Len(rs) THEN <<>>
    ELSE IF rs[i].exp_id = exp_id
         THEN <<i>> \o DataSetsFrom(rs, exp_id, i + 1)
         ELSE DataSetsFrom(rs, exp_id, i + 1)

DataSets(rs, exp_id) == DataSetsFrom(rs, exp_id, 1)

\* list[k] in Python: k counts from 0, a negative k counts from the end.
PyIndex(list, k) ==
    LET n == Len(list)
    IN  IF 0 <= k /\ k < n THEN [raised |-> FALSE, val |-> list[k + 1]]
        ELSE IF 0 - n <= k /\ k < 0 THEN [raised |-> FALSE, val |-> list[n + k + 1]]
        ELSE [raised |-> TRUE, val |-> 0]

\* Creating the data set of a run: the experiment's counter goes up by one
\* and the run is appended to the runs table.
CountRun(exps, exp_id) ==
    [exps EXCEPT ![exp_id].run_counter = exps[exp_id].run_counter + 1]

(***************************************************************************)
(* The measurement run.  A callback list is a sequence of callback names;  *)
(* the callback "boom" raises.  A sweep object is a sequence of items:     *)
(* "row" yields a row that is stored, "bad" yields a row whose add_result  *)
(* raises, "raise" makes the iteration itself raise.  Row k of a sweep     *)
(* holds x = k - 1 and m = x * x, as in docs/example.py.  The log of a     *)
(* call lists what happened, in order.                                     *)
(***************************************************************************)
Event(ev, name, n) == [ev |-> ev, name |-> name, n |-> n]

RowAt(k) == [x |-> k - 1, m |-> (k - 1) * (k - 1)]

\* func(*args) for each (func, args) of a callback list, in list order,
\* up to the first callback that raises.
RECURSIVE CallFrom(_, _, _)
CallFrom(callbacks, i, ev) ==
    IF i > Len(callbacks) THEN [raised |-> "none", log |-> <<>>]
    ELSE IF callbacks[i] = "boom"
         THEN [raised |-> "CallbackError", log |-> <<Event(ev, callbacks[i], i)>>]
         ELSE LET rest == CallFrom(callbacks, i + 1, ev)
              IN  [raised |-> rest.raised,
                   log |-> <<Event(ev, callbacks[i], i)>> \o rest.log]

\* The loop with a row that cannot be stored skipped instead of raised.
RECURSIVE SweepSkippingBad(_, _)
SweepSkippingBad(sweep_object, k) ==
    IF k > Len(sweep_object) THEN [raised |-> "none", rows |-> <<>>, log |-> <<>>]
    ELSE IF sweep_object[k] = "raise"
         THEN [raised |-> "SweepError", rows |-> <<>>,
               log |-> <<Event("next_raises", "", k)>>]
    ELSE LET rest == SweepSkippingBad(sweep_object, k + 1)
         IN  IF sweep_object[k] = "bad"
             THEN [raised |-> rest.raised, rows |-> rest.rows,
                   log |-> <<Event("next", "", k), Event("add_result_raises", "", k)>>
                           \o rest.log]
             ELSE [raised |-> rest.raised,
                   rows |-> <<RowAt(k)>> \o rest.rows,
                   log |-> <<Event("next", "", k), Event("add_result", "", k)>>
                           \o rest.log]

\* for data in sweep_object: datasaver.add_result(*data.items())
RECURSIVE SweepFrom(_, _)
SweepFrom(sweep_object, k) ==
    IF k > Len(sweep_object) THEN [raised |-> "none", rows |-> <<>>, log |-> <<>>]
    ELSE IF sweep_object[k] = "raise"
         THEN [raised |-> "SweepError", rows |-> <<>>,
               log |-> <<Event("next_raises", "", k)>>]
    ELSE IF sweep_object[k] = "bad"
         THEN [raised |-> "PersistError", rows |-> <<>>,
               log |-> <<Event("next", "", k), Event("add_result_raises", "", k)>>]
    ELSE LET rest == SweepFrom(sweep_object, k + 1)
         IN  [raised |-> rest.raised,
              rows |-> <<RowAt(k)>> \o rest.rows,
              log |-> <<Event("next", "", k), Event("add_result", "", k)>> \o rest.log]

\* The cleanup list registered with add_before_run, like the setup list.
RegisterAllBefore(exp_id, live_plot_axes, setup, cleanup) ==
    [exp_id |-> exp_id, subscribers |-> live_plot_axes,
     before_run |-> setup \o cleanup, after_run |-> <<>>]

\* measurement = SweepMeasurement(exp=experiment) with its subscribers, its
\* before-run callbacks (the setup list, in list order), the sweep and its
\* after-run callbacks (the cleanup list, in list order).
Register(exp_id, live_plot_axes, setup, cleanup) ==
    [exp_id |-> exp_id, subscribers |-> live_plot_axes,
     before_run |-> setup, after_run |-> cleanup]

\* with measurement.run() as datasaver: ...
\* Entering the run calls the before-run callbacks and then creates the data
\* set; leaving it, normally or by an exception, flushes and closes the run.
\* Whether the after-run callbacks are called when the body raised is the
\* framework's choice (after_on_error); an after-run callback that raises
\* while the run is left replaces the error of the body, as any exception
\* raised while a with statement is left does.
MeasurementRun(measurement, sweep_object, after_on_error) ==
    LET before == CallFrom(measurement.before_run, 1, "before_run")
        body == SweepFrom(sweep_object, 1)
        after == IF body.raised = "none" \/ after_on_error
                 THEN CallFrom(measurement.after_run, 1, "after_run")
                 ELSE [raised |-> "none", log |-> <<>>]
    IN  IF before.raised # "none"
        THEN [started |-> FALSE, raised |-> before.raised, rows |-> <<>>,
              log |-> before.log]
        ELSE [started |-> TRUE,
              raised |-> IF after.raised # "none" THEN after.raised ELSE body.raised,
              rows |-> body.rows,
              log |-> before.log \o <<Event("enter", "", 0)>> \o body.log
                      \o <<Event("exit", "", 0)>> \o after.log]

(***************************************************************************)
(* What do_experiment returns.                                             *)
(***************************************************************************)
FormatNames == {"data_set_path", "dataid", "dataset", "experiment", "measurement"}

NoFormat == [given |-> FALSE, list |-> <<>>]
Format(list) == [given |-> TRUE, list |-> list]

\* A returned value: a string (s), or a number or handle (n).
Value(kind, s, n) == [kind |-> kind, s |-> s, n |-> n]

\* results = {...}: the value each name of return_format stands for.
Results(k, data_set_path, dataid, exp_id) ==
    CASE k = "data_set_path" -> Value("str", data_set_path, 0)
      [] k = "dataid" -> Value("int", <<>>, dataid)
      [] k = "dataset" -> Value("DataSet", <<>>, dataid)
      [] k = "experiment" -> Value("Experiment", <<>>, exp_id)
      [] k = "measurement" -> Value("SweepMeasurement", <<>>, exp_id)

\* if return_format is None: return_format = ["data_set_path"]
EffectiveFormat(return_format) ==
    IF return_format.given THEN return_format.list ELSE <<"data_set_path">>

\* The values in the order of the results dict, not of return_format.
ReturnedInDictOrder(return_format, data_set_path, dataid, exp_id) ==
    LET fmt == EffectiveFormat(return_format)
        Asked(k) == \E i \in 1..Len(fmt) : fmt[i] = k
        keys == SelectSeq(<<"data_set_path", "dataid", "dataset", "experiment",
                            "measurement">>, Asked)
    IN  [i \in 1..Len(keys) |-> Results(keys[i], data_set_path, dataid, exp_id)]

\* [results[k] for k in return_format]
Returned(return_format, data_set_path, dataid, exp_id) ==
    LET fmt == EffectiveFormat(return_format)
    IN  [i \in 1..Len(fmt) |-> Results(fmt[i], data_set_path, dataid, exp_id)]

(***************************************************************************)
(* do_experiment                                                           *)
(***************************************************************************)
\* try: load_experiment_by_name, and set the handle's id from its exp_id;
\* except ValueError: new_experiment.
ResolveExperiment(exps, name, sample) ==
    LET loaded == LoadExperimentByName(exps, name, sample)
    IN  IF loaded.raised
        THEN [exps |-> NewExperimentTable(exps, name, sample),
              experiment |-> NewExperimentHandle(exps),
              how |-> "created"]
        ELSE [exps |-> exps,
              experiment |-> [loaded.exp EXCEPT !.id = loaded.exp.exp_id],
              how |-> "lookup"]

\* print(f"Completed measurement. Database path: {data_set_path}")
Message(data_set_path) ==
    [text |-> "Completed measurement. Database path: ", path |-> data_set_path]

LastNone ==
    [op |-> "none", arg |-> <<>>, pair |-> <<<<>>, <<>>>>, matches |-> 0,
     records |-> 0,
     how |-> "none", experiment |-> NoExperiment, counter |-> 0,
     run_number |-> 0, started |-> FALSE, run_id |-> 0, rows |-> <<>>,
     raised |-> "none", subscribers |-> <<>>, log |-> <<>>, printed |-> <<>>,
     ret |-> <<>>,
     dict |-> [x |-> <<>>, m |-> <<>>],
     setup |-> <<>>, sweep_object |-> <<>>, cleanup |-> <<>>,
     return_format |-> NoFormat]

\* The steps of the call in the order of the code; each is bound to its one
\* value before the next uses it.
DoExperiment(base_path, setup, sweep_object, cleanup, live_plot_axes, return_format, after_on_error) ==
    /\ Len(runs) < MaxRuns
    /\ \E pair \in {RunPair(base_path)} :
       \E resolved \in {ResolveExperiment(experiments, pair[1], pair[2])} :
       \E measurement \in {Register(resolved.experiment.exp_id, live_plot_axes, setup, cleanup)} :
       \E run \in {MeasurementRun(measurement, sweep_object, after_on_error)} :
       LET experiment == resolved.experiment
           counter == LastCounter(resolved.exps, experiment.exp_id)
           dataid == Len(runs) + 1
           data_set_path == DataSetPath(base_path, counter)
           completed == run.raised = "none"
       IN  /\ Len(resolved.exps) <= MaxExps
           /\ experiments' = IF run.started
                             THEN CountRun(resolved.exps, experiment.exp_id)
                             ELSE resolved.exps
           /\ runs' = IF run.started
                      THEN Append(runs, [exp_id |-> experiment.exp_id,
                                         rows |-> run.rows])
                      ELSE runs
           /\ handed' = IF completed
                        THEN handed \cup {[path |-> data_set_path, run_id |-> dataid]}
                        ELSE handed
           /\ last' = [LastNone EXCEPT
                         !.op = "do_experiment",
                         !.arg = base_path,
                         !.pair = pair,
                         !.matches = Cardinality(Matching(experiments, pair[1], pair[2])),
                         !.records = Cardinality(SamePair(experiments, pair[1], pair[2])),
                         !.how = resolved.how,
                         !.experiment = experiment,
                         !.counter = counter,
                         !.started = run.started,
                         !.run_id = IF run.started THEN dataid ELSE 0,
                         !.rows = run.rows,
                         !.raised = run.raised,
                         !.subscribers = measurement.subscribers,
                         !.log = run.log \o (IF completed
                                             THEN <<Event("print", "", 0)>>
                                             ELSE <<>>),
                         !.printed = IF completed
                                     THEN <<Message(data_set_path)>>
                                     ELSE <<>>,
                         !.ret = IF completed
                                 THEN Returned(return_format, data_set_path, dataid,
                                               experiment.exp_id)
                                 ELSE <<>>,
                         !.setup = setup,
                         !.sweep_object = sweep_object,
                         !.cleanup = cleanup,
                         !.return_format = return_format]
           /\ UNCHANGED lookup

(***************************************************************************)
(* get_results_from_db_path                                                *)
(***************************************************************************)
\* The run a db_path stands for: int() of the last segment, the lookup of
\* the experiment (any ValueError of the lookup is raised again as the
\* "not unique" ValueError), then data_sets()[run_number].
FetchRun(exps, rs, db_path) ==
    LET parts == PathParts(db_path)
        loaded == LoadExperimentByName(exps, parts.experiment_name, parts.sample_name)
        found == PyIndex(DataSets(rs, loaded.exp.exp_id), parts.run_number.val)
    IN  IF ~parts.run_number.ok
        THEN [raised |-> "ValueError", exp |-> NoExperiment, run_id |-> 0]
        ELSE IF loaded.raised
        THEN [raised |-> "NotUnique", exp |-> NoExperiment, run_id |-> 0]
        ELSE IF found.raised
        THEN [raised |-> "IndexError", exp |-> loaded.exp, run_id |-> 0]
        ELSE [raised |-> "none", exp |-> loaded.exp, run_id |-> found.val]

\* dataset_to_dict: for each parameter its column, np.array(get_data(name));
\* get_data gives one one-element list per row, flatten() removes that level.
Column(rows, name, flatten_values) ==
    [i \in 1..Len(rows) |->
        IF flatten_values THEN rows[i][name] ELSE <<rows[i][name]>>]

DatasetToDict(rows, flatten_values) ==
    [x |-> Column(rows, "x", flatten_values), m |-> Column(rows, "m", flatten_values)]

GetResultsFromDbPath(db_path, return_as_dict, flatten_values) ==
    \E parts \in {PathParts(db_path)} :
    \E fetched \in {FetchRun(experiments, runs, db_path)} :
    LET ok == fetched.raised = "none"
    IN  /\ last' = [LastNone EXCEPT
                      !.op = "get_results_from_db_path",
                      !.arg = db_path,
                      !.pair = <<parts.experiment_name, parts.sample_name>>,
                      !.matches = Cardinality(Matching(experiments,
                                      parts.experiment_name, parts.sample_name)),
                      !.records = Cardinality(SamePair(experiments,
                                      parts.experiment_name, parts.sample_name)),
                      !.how = IF fetched.exp.exp_id # 0 THEN "lookup" ELSE "none",
                      !.experiment = fetched.exp,
                      !.run_number = parts.run_number.val,
                      !.run_id = fetched.run_id,
                      !.rows = IF ok THEN runs[fetched.run_id].rows ELSE <<>>,
                      !.raised = fetched.raised,
                      !.ret = IF ok /\ ~return_as_dict
                              THEN <<Value("DataSet", <<>>, fetched.run_id)>>
                              ELSE IF ok THEN <<Value("dict", <<>>, fetched.run_id)>>
                              ELSE <<>>,
                      !.dict = IF ok /\ return_as_dict
                               THEN DatasetToDict(runs[fetched.run_id].rows, flatten_values)
                               ELSE LastNone.dict]
        /\ UNCHANGED <<experiments, runs, handed, lookup>>

(***************************************************************************)
(* Other users of the store: new_experiment called directly adds a record  *)
(* whatever the store already holds.                                       *)
(***************************************************************************)
NewExperimentDirect(name, sample) ==
    /\ Len(experiments) < MaxExps
    /\ experiments' = NewExperimentTable(experiments, name, sample)
    /\ last' = [LastNone EXCEPT !.op = "new_experiment", !.pair = <<name, sample>>]
    /\ UNCHANGED <<runs, handed, lookup>>

(***************************************************************************)
(* The inputs of the calls.                                                *)
(***************************************************************************)
SeqsUpTo(S, n) == UNION {[1..k -> S] : k \in 0..n}

\* docs/example.py: one base path with a sample name, one setup and one
\* cleanup callback, a sweep whose rows are all stored.
ExamplePath == <<"a", "/", "b">>
ExampleSetup == <<"f">>
ExampleCleanup == <<"g">>
ExampleSweep == [k \in 1..MaxRows |-> "row"]

\* Without a sample name, with one, with a sample name of two segments,
\* with the sample name spelled "None" and with an empty sample name.
BasePaths ==
    {<<"a">>, ExamplePath, <<"a", "/", "b", "/", "b">>, <<"a", "/">> \o NoneStr,
     <<"a", "/">>}

\* A base path followed by a run number, or not followed by one; run numbers
\* are also written with a space or a vertical tab before them and with an
\* underscore.
DbPaths ==
    BasePaths \cup
    {bp \o Slash \o IntToStr(k) :
        bp \in {<<"a">>, ExamplePath}, k \in (0 - MaxRuns - 1)..MaxRuns}
    \cup {ExamplePath \o Slash \o t :
            t \in {<<" ", "0">>, <<VerticalTab, "0">>, <<"0", "_", "1">>, <<"_", "0">>}}

\* A run that completes, a run whose sweep raises at once, and a call whose
\* setup raises before the run starts.
LayerRuns ==
    {[setup |-> ExampleSetup, sweep_object |-> <<"row">>],
     [setup |-> ExampleSetup, sweep_object |-> <<"raise">>],
     [setup |-> <<"boom">>, sweep_object |-> <<"row">>]}
Callbacks == {"f", "g"}
CallbackLists == SeqsUpTo(Callbacks, MaxCallbacks) \cup {<<"boom">>, <<"f", "boom">>}
Sweeps == SeqsUpTo({"row", "bad", "raise"}, MaxRows)
SweepCleanups == {ExampleCleanup, <<"boom">>, <<"g", "boom">>}
Formats == {NoFormat} \cup {Format(l) : l \in SeqsUpTo(FormatNames, MaxFormat)}

Init ==
    /\ experiments = <<>>
    /\ runs = <<>>
    /\ handed = {}
    /\ last = LastNone
    /\ lookup \in Lookups

\* Calls on any base path that complete, raise in the sweep or raise in the
\* setup.
DoLayer ==
    \E bp \in BasePaths, r \in LayerRuns :
        DoExperiment(bp, r.setup, r.sweep_object, ExampleCleanup, <<>>, NoFormat, TRUE)

\* Runs in a store that other code writes to as well: without a sample name
\* and with one, completing or raising in the sweep.
DoShared ==
    \E bp \in {<<"a">>, ExamplePath}, sw \in {<<"row">>, <<"raise">>} :
        DoExperiment(bp, ExampleSetup, sw, ExampleCleanup, <<>>, NoFormat, TRUE)

\* Runs with any setup list, with and without live plots.
DoSetup ==
    \E st \in CallbackLists, axes \in {<<>>, <<"x">>} :
        DoExperiment(ExamplePath, st, ExampleSweep, ExampleCleanup, axes, NoFormat, TRUE)

\* Runs with any cleanup list.
DoCleanup ==
    \E cl \in CallbackLists, st \in {<<>>, <<"f", "g">>} :
        DoExperiment(ExamplePath, st, ExampleSweep, cl, <<>>, NoFormat, TRUE)

\* Runs of any sweep object, with cleanup callbacks that return and cleanup
\* callbacks that raise.
DoSweep ==
    \E sw \in Sweeps, cl \in SweepCleanups, after_on_error \in BOOLEAN :
        DoExperiment(ExamplePath, ExampleSetup, sw, cl, <<>>, NoFormat, after_on_error)

\* Runs with any return_format.
DoFormat ==
    \E fmt \in Formats, bp \in {<<"a">>, ExamplePath} :
        DoExperiment(bp, ExampleSetup, ExampleSweep, ExampleCleanup, <<>>, fmt, TRUE)

GetAny == \E p \in DbPaths : GetResultsFromDbPath(p, FALSE, FALSE)

GetHanded == \E h \in handed : GetResultsFromDbPath(h.path, FALSE, FALSE)

GetDict ==
    \E h \in handed, flatten_values \in BOOLEAN :
        GetResultsFromDbPath(h.path, TRUE, flatten_values)

NewDirect ==
    \E bp \in {<<"a">>, ExamplePath} :
        NewExperimentDirect(RunPair(bp)[1], RunPair(bp)[2])

\* The store shared with other code.
Next == DoShared \/ GetAny \/ GetDict \/ NewDirect

Spec == Init /\ [][Next]_vars

\* A store that only this layer writes to.
NextLayer == DoLayer \/ GetHanded

SpecLayer == Init /\ [][NextLayer]_vars

\* The same with a QCoDeS release that looks an empty sample name up by the
\* experiment name alone.
InitByName == Init /\ lookup = "name"

SpecLayerByName == InitByName /\ [][NextLayer]_vars

\* One experiment, every shape of run.
NextRun == DoSetup \/ DoCleanup \/ DoSweep \/ GetDict

SpecRun == Init /\ [][NextRun]_vars

\* One experiment, every return_format.
NextFormat == DoFormat \/ GetHanded

SpecFormat == Init /\ [][NextFormat]_vars

(***************************************************************************)
(* Properties.                                                             *)
(***************************************************************************)
LastDo == last.op = "do_experiment"
LastGet == last.op = "get_results_from_db_path"
Completed == LastDo /\ last.raised = "none"

\* C1: the (experiment name, sample name) that get_results_from_db_path
\* derives from the path a completed do_experiment gave back is the pair
\* do_experiment looked up or created, for every base path.
C1_SamePairBothSides ==
    Completed => FetchPair(last.printed[1].path) = last.pair

\* C2: the counter in the path of every completed call is the zero-based
\* position of the call's own run among the runs of its experiment, and
\* get_results_from_db_path on that path gives that run.
C2_PathFetchesOwnRun ==
    \A h \in handed :
        LET parts == PathParts(h.path)
            own == DataSets(runs, runs[h.run_id].exp_id)
            fetched == FetchRun(experiments, runs, h.path)
        IN  /\ parts.run_number.ok
            /\ parts.run_number.val \in 0..(Len(own) - 1)
            /\ own[parts.run_number.val + 1] = h.run_id
            /\ fetched.raised = "none"
            /\ fetched.run_id = h.run_id

\* C3: do_experiment on an identity that several records share fails with
\* the "not unique" error, creates no record and starts no run.
C3_AmbiguousRunFails ==
    (LastDo /\ last.records > 1) =>
        (last.raised = "NotUnique" /\ last.how # "created" /\ ~last.started)

\* C4: get_results_from_db_path raises the "not unique" error exactly when
\* the lookup matches several records; no match is not reported as "not
\* unique".
C4_NotUniqueIffSeveral ==
    (LastGet /\ PathParts(last.arg).run_number.ok) =>
        ((last.raised = "NotUnique") <=> (last.matches > 1))

\* C5: in a store that only this layer writes to, no two experiment records
\* share (name, sample name): do_experiment on an identity that exists
\* reuses its record, and get_results_from_db_path changes no table.
OneRecordPerIdentity ==
    \A i, j \in 1..Len(experiments) :
        (experiments[i].name = experiments[j].name
         /\ experiments[i].sample_name = experiments[j].sample_name) => i = j

ReusesOrReads ==
    /\ (last'.op = "do_experiment"
        /\ SamePair(experiments, last'.pair[1], last'.pair[2]) # {})
       => (Len(experiments') = Len(experiments) /\ last'.how = "lookup")
    /\ last'.op = "get_results_from_db_path"
       => (experiments' = experiments /\ runs' = runs)

C5_OneRecordPerIdentity == []OneRecordPerIdentity /\ [][ReusesOrReads]_vars

\* C6: with n runs stored for the experiment, a run number outside 0..n-1
\* (n itself, a negative number) makes get_results_from_db_path raise the
\* index error and give back nothing.
C6_OutOfRangeRaises ==
    (LastGet /\ last.how = "lookup"
     /\ last.run_number \notin 0..(Len(DataSets(runs, last.experiment.exp_id)) - 1))
    => (last.raised = "IndexError" /\ last.ret = <<>>)

\* C7: a completed do_experiment gives back one value per name of
\* return_format, the i-th being the value the i-th name stands for; without
\* a return_format it gives back the one path "<base_path>/<counter>".
NamedBy(k, v, path) ==
    /\ k = "data_set_path" => (v.kind = "str" /\ v.s = path)
    /\ k = "dataid" => (v.kind = "int" /\ v.n = last.run_id)
    /\ k = "dataset" => (v.kind = "DataSet" /\ v.n = last.run_id)
    /\ k = "experiment" => (v.kind = "Experiment" /\ v.n = last.experiment.exp_id)
    /\ k = "measurement" => (v.kind = "SweepMeasurement"
                             /\ v.n = last.experiment.exp_id)

C7_ReturnFollowsFormat ==
    Completed =>
        LET path == last.arg \o Slash \o IntToStr(last.counter)
            fmt == last.return_format
        IN  IF fmt.given
            THEN /\ Len(last.ret) = Len(fmt.list)
                 /\ \A i \in 1..Len(fmt.list) : NamedBy(fmt.list[i], last.ret[i], path)
            ELSE /\ Len(last.ret) = 1
                 /\ last.ret[1].kind = "str"
                 /\ last.ret[1].s = path

C7_Witness ==
    /\ Completed
    /\ last.return_format = Format(<<"measurement", "data_set_path">>)
    /\ last.counter = 1

\* C8: in a run that completes, the setup callbacks run in list order before
\* the first row is stored, every row the sweep yields is stored once and in
\* order, the cleanup callbacks run in list order after the last row is
\* stored, and the path is reported after all of that.
IsBefore(e) == e.ev = "before_run"
IsAfter(e) == e.ev = "after_run"
IsNext(e) == e.ev = "next"
IsAdd(e) == e.ev = "add_result"
At(ev) == {i \in 1..Len(last.log) : last.log[i].ev = ev}
NamesOf(events) == [i \in 1..Len(events) |-> events[i].name]
NumbersOf(events) == [i \in 1..Len(events) |-> events[i].n]

C8_RunOrder ==
    Completed =>
        LET n == Len(last.sweep_object)
        IN  /\ NamesOf(SelectSeq(last.log, IsBefore)) = last.setup
            /\ NamesOf(SelectSeq(last.log, IsAfter)) = last.cleanup
            /\ NumbersOf(SelectSeq(last.log, IsNext)) = [k \in 1..n |-> k]
            /\ NumbersOf(SelectSeq(last.log, IsAdd)) = [k \in 1..n |-> k]
            /\ runs[last.run_id].rows = [k \in 1..n |-> RowAt(k)]
            /\ \A i \in At("before_run"), j \in At("add_result") : i < j
            /\ \A i \in At("add_result"), j \in At("after_run") : i < j
            /\ At("print") = {Len(last.log)}
            /\ Len(last.printed) = 1

C8_Witness ==
    /\ Completed
    /\ last.setup = <<"f", "g">>
    /\ last.cleanup = <<"g", "f">>
    /\ Len(last.sweep_object) = MaxRows

\* The parts of C10.  k is the place of the first item of the sweep that
\* fails, 0 when there is none.
FirstFailure(sweep_object) ==
    IF \A k \in 1..Len(sweep_object) : sweep_object[k] = "row" THEN 0
    ELSE CHOOSE k \in 1..Len(sweep_object) :
            /\ sweep_object[k] # "row"
            /\ \A j \in 1..(k - 1) : sweep_object[j] = "row"

SweepFailure(k) ==
    IF last.sweep_object[k] = "raise" THEN "SweepError" ELSE "PersistError"

CleanupRaised == \E i \in At("after_run") : last.log[i].name = "boom"

MessageOnCompletion(k) ==
    Completed =>
        /\ k = 0
        /\ Len(last.printed) = 1
        /\ Cardinality(At("print")) = 1
        /\ last.printed[1].path = last.ret[1].s

NothingOnFailure(k) ==
    /\ last.printed = <<>>
    /\ At("print") = {}
    /\ last.ret = <<>>
    /\ runs[last.run_id].rows = [j \in 1..(k - 1) |-> RowAt(j)]
    /\ \A i \in At("add_result") : last.log[i].n < k
    /\ \E i \in At("exit") :
           \A j \in At("next") \cup At("next_raises") \cup At("add_result_raises") :
               j < i

\* C10: the completion message is printed once, with the path given back,
\* when the run completes; when iterating the sweep or storing a row raises,
\* nothing is printed or given back, that error reaches the caller
\* unchanged, no later row is stored and the run is left before the call
\* ends.
C10_MessageOnlyOnCompletion ==
    LET k == FirstFailure(last.sweep_object)
    IN  /\ MessageOnCompletion(k)
        /\ (LastDo /\ last.started /\ k # 0) =>
               (last.raised = SweepFailure(k) /\ NothingOnFailure(k))

\* C10, amended: as above, but the error that reaches the caller is the
\* error of the sweep only when no cleanup callback raises while the run is
\* left; when one does, its error reaches the caller instead.
C10_MessageOrError ==
    LET k == FirstFailure(last.sweep_object)
    IN  /\ MessageOnCompletion(k)
        /\ (LastDo /\ last.started /\ k # 0) =>
               /\ last.raised = IF CleanupRaised THEN "CallbackError"
                                ELSE SweepFailure(k)
               /\ NothingOnFailure(k)

C10_Witness ==
    /\ LastDo
    /\ last.sweep_object = <<"bad", "row">>
    /\ last.cleanup = <<"g", "boom">>
    /\ last.raised = "CallbackError"
    /\ Len(runs[last.run_id].rows) = 0

\* C9: a record obtained by lookup, in do_experiment and in
\* get_results_from_db_path, has its id set from its exp_id before it is
\* used; a record just created needs no such step.
C9_LookupSetsId ==
    last.how \in {"lookup", "created"} => last.experiment.id = last.experiment.exp_id

====
